---- MODULE Spec2Model ----
(***************************************************************************)
(* One run of the AI-Ops detector (src/detector/detector.py): the module   *)
(* level configuration, then main(): query Loki, build sliding windows,    *)
(* detect anomalous windows, and for a non-empty anomaly list summarise,   *)
(* alert Slack and auto-remediate.                                         *)
(*                                                                         *)
(* Log lines are represented by their count: every property below is about *)
(* window boundaries and control flow, so a feature row is represented by  *)
(* the slice of `texts` it is computed from.  CONTAMINATION is held in     *)
(* hundredths (5 is 0.05).  Environment variables that the code only tests *)
(* for truthiness are BOOLEAN.                                             *)
(***************************************************************************)
EXTENDS Integers, Sequences, FiniteSets, TLC

\* Bounds of the model: the largest number of queried lines and the largest
\* window size and step explored besides the defaults.
MaxLines == 5
MaxSize == 3
MaxStep == 3

\* Defaults of WINDOW_SIZE and WINDOW_STEP.
DefaultWindowSize == 50
DefaultWindowStep == 25

VARIABLES
    WINDOW_SIZE,      \* int(os.environ.get("WINDOW_SIZE", "50"))
    WINDOW_STEP,      \* int(os.environ.get("WINDOW_STEP", "25"))
    CONTAMINATION,    \* float(os.environ.get("CONTAMINATION", "0.05")), in hundredths
    SLACK_WEBHOOK,    \* truthiness of the environment variable
    GITHUB_TOKEN,
    GITHUB_REPO,
    pc,               \* position in main()
    queryOutcome,     \* how requests.get / the payload parsing ended
    nLines,           \* len(lines) returned by query_loki_for_lines
    features,         \* rows of the feature matrix, one per window
    anomalies,        \* ascending list of anomalous window indices (1-based position = index + 1)
    fitted,           \* IsolationForest.fit_predict was run
    summary,          \* the summary string, as the list of windows it describes
    slackOutcome,     \* what send_slack_alert did
    rem,              \* the value auto_remediate returned
    remediation_log,  \* lines appended to /tmp/remediation.log
    ticketOutcome,    \* how the POST to the GitHub issues API ended
    writeOutcome,     \* how the append to /tmp/remediation.log ended
    calls,            \* history: collaborator calls in the order they were made
    status            \* what main() printed last

cfg == <<WINDOW_SIZE, WINDOW_STEP, CONTAMINATION, SLACK_WEBHOOK, GITHUB_TOKEN, GITHUB_REPO>>
vars == <<WINDOW_SIZE, WINDOW_STEP, CONTAMINATION, SLACK_WEBHOOK, GITHUB_TOKEN,
          GITHUB_REPO, pc, queryOutcome, nLines, features, anomalies, fitted,
          summary, slackOutcome, rem, remediation_log, ticketOutcome, writeOutcome,
          calls, status>>

Max(a, b) == IF a >= b THEN a ELSE b
Min(a, b) == IF a <= b THEN a ELSE b

\* Values of the configuration explored: non-positive, small, and the defaults.
Sizes == (-1 .. MaxSize) \cup {DefaultWindowSize}
Steps == (-1 .. MaxStep) \cup {DefaultWindowStep}
Contaminations == {0, 5, 50, 60}

\* Line counts a query may return under the configuration: small ones, and
\* the 120-line batch under the default window size and step.
LineCounts ==
    (0 .. MaxLines) \cup
    (IF WINDOW_SIZE = DefaultWindowSize /\ WINDOW_STEP = DefaultWindowStep
     THEN {120} ELSE {})

\* Python's range(start, stop, step) for step > 0, as a sequence.
RECURSIVE PyRange(_, _, _)
PyRange(start, stop, step) ==
    IF start >= stop THEN << >>
    ELSE <<start>> \o PyRange(start + step, stop, step)

\* Python's texts[a:b] on a list of n elements: the half-open range [lo, hi).
PySliceIndex(n, i) == IF i < 0 THEN Max(0, n + i) ELSE Min(i, n)
PySlice(n, a, b) ==
    LET lo == PySliceIndex(n, a)
        hi == PySliceIndex(n, b)
    IN  [lo |-> lo, hi |-> Max(lo, hi)]

\* Variant of WindowStarts whose stop is one too small (n - size, not n - size + 1).
WindowStarts_stopOffByOne(n, size, step) ==
    PyRange(0, Max(1, n - size), Max(1, step))

\* Variant of WindowStarts that adds a last window aligned to the end of the
\* lines when the stepped windows leave a tail uncovered.
WindowStarts_withTail(n, size, step) ==
    LET starts == PyRange(0, Max(1, n - size + 1), Max(1, step))
        last   == starts[Len(starts)]
    IN  IF size > 0 /\ last + size < n THEN Append(starts, n - size) ELSE starts

\* The starts of the windows: range(0, max(1, n - WINDOW_SIZE + 1), max(1, WINDOW_STEP)).
WindowStarts(n, size, step) ==
    PyRange(0, Max(1, n - size + 1), Max(1, step))

\* One row per window; the row of window `start` is computed from
\* texts[start:start + WINDOW_SIZE].
feature_extraction_from_lines(n, size, step) ==
    IF n = 0 THEN << >>
    ELSE LET starts == WindowStarts(n, size, step)
         IN  [i \in 1 .. Len(starts) |->
                 LET w == PySlice(n, starts[i], starts[i] + size)
                 IN  [start |-> starts[i], lo |-> w.lo, hi |-> w.hi,
                      length |-> w.hi - w.lo]]

\* IsolationForest accepts a float contamination in (0, 0.5] only.
ContaminationAccepted(c) == c > 0 /\ c <= 50

Init ==
    /\ WINDOW_SIZE \in Sizes
    /\ WINDOW_STEP \in Steps
    /\ CONTAMINATION \in Contaminations
    /\ SLACK_WEBHOOK \in BOOLEAN
    /\ GITHUB_TOKEN \in BOOLEAN
    /\ GITHUB_REPO \in BOOLEAN
    /\ pc = "start"
    /\ queryOutcome = "none"
    /\ nLines = 0
    /\ features = << >>
    /\ anomalies = << >>
    /\ fitted = FALSE
    /\ summary = << >>
    /\ slackOutcome = "none"
    /\ rem = [type |-> "unset", locator |-> ""]
    /\ ticketOutcome = "none"
    /\ writeOutcome = "none"
    /\ remediation_log = << >>
    /\ calls = << >>
    /\ status = "starting"

\* Variant of query_loki_for_lines without the try/except: a failed query
\* propagates out of main().
query_loki_for_lines_propagates ==
    /\ pc = "start"
    /\ \E o \in {"ok", "transport_error", "http_error", "malformed_payload"} :
         \E n \in LineCounts :
            /\ queryOutcome' = o
            /\ nLines' = IF o = "ok" THEN n ELSE 0
            /\ pc' = IF o = "ok" THEN "queried" ELSE "crashed"
            /\ status' = IF o = "ok" THEN status ELSE "uncaught:query_loki_for_lines"
    /\ calls' = Append(calls, "loki_get")
    /\ UNCHANGED <<cfg, features, anomalies, fitted, summary, slackOutcome, rem,
                   remediation_log, ticketOutcome, writeOutcome>>

\* lines = query_loki_for_lines(...): every failure inside the try block
\* (transport error, HTTP error status, malformed payload) returns [].
query_loki_for_lines ==
    /\ pc = "start"
    /\ \E o \in {"ok", "transport_error", "http_error", "malformed_payload"} :
         \E n \in LineCounts :
            /\ queryOutcome' = o
            /\ nLines' = IF o = "ok" THEN n ELSE 0
    /\ calls' = Append(calls, "loki_get")
    /\ pc' = "queried"
    /\ UNCHANGED <<cfg, features, anomalies, fitted, summary, slackOutcome, rem,
                   remediation_log, ticketOutcome, writeOutcome, status>>

\* features = feature_extraction_from_lines(lines)
ExtractFeatures ==
    /\ pc = "queried"
    /\ features' = feature_extraction_from_lines(nLines, WINDOW_SIZE, WINDOW_STEP)
    /\ pc' = "extracted"
    /\ UNCHANGED <<cfg, queryOutcome, nLines, anomalies, fitted, summary, slackOutcome,
                   rem, remediation_log, ticketOutcome, writeOutcome, calls, status>>

\* Variant of TooFewSamples with the floor at 2 rows.
TooFewSamples_two(rows) == rows < 2

\* if features.shape[0] < 3: return []
TooFewSamples(rows) == rows < 3

\* The ascending list of the elements of a finite set of integers.
RECURSIVE SortedSeq(_)
SortedSeq(S) ==
    IF S = {} THEN << >>
    ELSE LET m == CHOOSE x \in S : \A y \in S : x <= y
         IN  <<m>> \o SortedSeq(S \ {m})

\* anomalies = detect_anomalies(features).  The fitted forest may label any
\* rows -1; a contamination it does not accept makes fit_predict raise, and
\* nothing in main() catches that.
detect_anomalies ==
    /\ pc = "extracted"
    /\ IF TooFewSamples(Len(features))
       THEN /\ anomalies' = << >>
            /\ pc' = "detected"
            /\ UNCHANGED <<fitted, status>>
       ELSE IF ~ContaminationAccepted(CONTAMINATION)
       THEN /\ pc' = "crashed"
            /\ status' = "uncaught:detect_anomalies"
            /\ UNCHANGED <<anomalies, fitted>>
       ELSE /\ \E S \in SUBSET (0 .. Len(features) - 1) : anomalies' = SortedSeq(S)
            /\ fitted' = TRUE
            /\ pc' = "detected"
            /\ UNCHANGED status
    /\ UNCHANGED <<cfg, queryOutcome, nLines, features, summary, slackOutcome, rem,
                   remediation_log, ticketOutcome, writeOutcome, calls>>

\* Variant of HasAnomalies that takes the alerting branch unconditionally.
HasAnomalies_always == TRUE

\* `if anomalies:` in main().
HasAnomalies == anomalies # << >>

\* One part per anomalous window, in the order of `anomalies`.
summarize_anomalies(anoms, feats) ==
    [i \in 1 .. Len(anoms) |-> [idx |-> anoms[i], feats |-> feats[anoms[i] + 1]]]

\* summary = summarize_anomalies(anomalies, features)
Summarize ==
    /\ pc = "detected"
    /\ HasAnomalies
    /\ summary' = summarize_anomalies(anomalies, features)
    /\ calls' = Append(calls, "summarize_anomalies")
    /\ pc' = "summarized"
    /\ UNCHANGED <<cfg, queryOutcome, nLines, features, anomalies, fitted, slackOutcome,
                   rem, remediation_log, ticketOutcome, writeOutcome, status>>

\* else: print("No anomalies detected")
NoAnomalies ==
    /\ pc = "detected"
    /\ ~HasAnomalies
    /\ status' = "no_anomalies"
    /\ pc' = "done"
    /\ UNCHANGED <<cfg, queryOutcome, nLines, features, anomalies, fitted, summary,
                   slackOutcome, rem, remediation_log, ticketOutcome, writeOutcome, calls>>

\* Variant of send_slack_alert without the try/except around the post.
send_slack_alert_propagates ==
    /\ pc = "summarized"
    /\ IF ~SLACK_WEBHOOK
       THEN /\ slackOutcome' = "skipped"
            /\ calls' = Append(calls, "send_slack_alert")
            /\ pc' = "alerted"
            /\ UNCHANGED status
       ELSE /\ slackOutcome' \in {"sent", "failed"}
            /\ calls' = calls \o <<"send_slack_alert", "slack_post">>
            /\ pc' = IF slackOutcome' = "failed" THEN "crashed" ELSE "alerted"
            /\ status' = IF slackOutcome' = "failed"
                         THEN "uncaught:send_slack_alert" ELSE status
    /\ UNCHANGED <<cfg, queryOutcome, nLines, features, anomalies, fitted, summary, rem,
                   remediation_log, ticketOutcome, writeOutcome>>

\* send_slack_alert(summary): returns without posting when no webhook is
\* configured; a failed post is printed and swallowed.
send_slack_alert ==
    /\ pc = "summarized"
    /\ IF ~SLACK_WEBHOOK
       THEN /\ slackOutcome' = "skipped"
            /\ calls' = Append(calls, "send_slack_alert")
       ELSE /\ slackOutcome' \in {"sent", "failed"}
            /\ calls' = calls \o <<"send_slack_alert", "slack_post">>
    /\ pc' = "alerted"
    /\ UNCHANGED <<cfg, queryOutcome, nLines, features, anomalies, fitted, summary, rem,
                   remediation_log, ticketOutcome, writeOutcome, status>>

\* Variant of TicketConfigured that needs only one of the two settings.
TicketConfigured_either == GITHUB_TOKEN \/ GITHUB_REPO

\* `if GITHUB_TOKEN and GITHUB_REPO:` in auto_remediate.
TicketConfigured == GITHUB_TOKEN /\ GITHUB_REPO

\* Variant of auto_remediate that returns None when the ticket request fails,
\* without falling back to the remediation log.
auto_remediate_noFallback ==
    /\ pc = "alerted"
    /\ \E t \in {"created", "http_error", "transport_error", "bad_json"} :
       \E w \in {"ok", "failed"} :
          LET tried   == GITHUB_TOKEN /\ GITHUB_REPO
              created == tried /\ t = "created"
          IN  /\ ticketOutcome' = IF tried THEN t ELSE "none"
              /\ writeOutcome' = IF tried THEN "none" ELSE w
              /\ calls' = calls \o <<"auto_remediate">>
                              \o (IF tried THEN <<"github_post">> ELSE <<"log_write">>)
              /\ remediation_log' = IF ~tried /\ w = "ok"
                                    THEN Append(remediation_log, summary)
                                    ELSE remediation_log
              /\ rem' = IF created THEN [type |-> "github_issue", locator |-> "html_url"]
                        ELSE IF ~tried /\ w = "ok"
                        THEN [type |-> "log", locator |-> "/tmp/remediation.log"]
                        ELSE [type |-> "None", locator |-> ""]
    /\ status' = "remediation_result"
    /\ pc' = "done"
    /\ UNCHANGED <<cfg, queryOutcome, nLines, features, anomalies, fitted, summary,
                   slackOutcome>>

\* Variant of auto_remediate without the try/except around the fallback
\* write: a failed write propagates out of main().
auto_remediate_writeRaises ==
    /\ pc = "alerted"
    /\ \E t \in {"created", "http_error", "transport_error", "bad_json"} :
       \E w \in {"ok", "failed"} :
          LET tried   == GITHUB_TOKEN /\ GITHUB_REPO
              created == tried /\ t = "created"
              raised  == ~created /\ w = "failed"
          IN  /\ ticketOutcome' = IF tried THEN t ELSE "none"
              /\ writeOutcome' = IF created THEN "none" ELSE w
              /\ calls' = calls \o <<"auto_remediate">>
                              \o (IF tried THEN <<"github_post">> ELSE << >>)
                              \o (IF created THEN << >> ELSE <<"log_write">>)
              /\ remediation_log' = IF ~created /\ w = "ok"
                                    THEN Append(remediation_log, summary)
                                    ELSE remediation_log
              /\ rem' = IF created THEN [type |-> "github_issue", locator |-> "html_url"]
                        ELSE IF w = "ok"
                        THEN [type |-> "log", locator |-> "/tmp/remediation.log"]
                        ELSE rem
              /\ status' = IF raised THEN "uncaught:auto_remediate" ELSE "remediation_result"
              /\ pc' = IF raised THEN "crashed" ELSE "done"
    /\ UNCHANGED <<cfg, queryOutcome, nLines, features, anomalies, fitted, summary,
                   slackOutcome>>

\* rem = auto_remediate(summary); print("Remediation result:", rem)
auto_remediate ==
    /\ pc = "alerted"
    /\ \E t \in {"created", "http_error", "transport_error", "bad_json"} :
       \E w \in {"ok", "failed"} :
          LET tried   == TicketConfigured
              created == tried /\ t = "created"
          IN  /\ ticketOutcome' = IF tried THEN t ELSE "none"
              /\ writeOutcome' = IF created THEN "none" ELSE w
              /\ calls' = calls \o <<"auto_remediate">>
                              \o (IF tried THEN <<"github_post">> ELSE << >>)
                              \o (IF created THEN << >> ELSE <<"log_write">>)
              /\ remediation_log' = IF ~created /\ w = "ok"
                                    THEN Append(remediation_log, summary)
                                    ELSE remediation_log
              /\ rem' = IF created THEN [type |-> "github_issue", locator |-> "html_url"]
                        ELSE IF w = "ok"
                        THEN [type |-> "log", locator |-> "/tmp/remediation.log"]
                        ELSE [type |-> "None", locator |-> ""]
    /\ status' = "remediation_result"
    /\ pc' = "done"
    /\ UNCHANGED <<cfg, queryOutcome, nLines, features, anomalies, fitted, summary,
                   slackOutcome>>

Next ==
    \/ query_loki_for_lines
    \/ ExtractFeatures
    \/ detect_anomalies
    \/ Summarize
    \/ NoAnomalies
    \/ send_slack_alert
    \/ auto_remediate

Spec == Init /\ [][Next]_vars

\* Every request has a timeout and main() is straight-line code: a run that
\* can take its next step takes it.
FairSpec == Spec /\ WF_vars(Next)

(***************************************************************************)
(* Properties                                                              *)
(***************************************************************************)

Called(c) == \E i \in 1 .. Len(calls) : calls[i] = c

\* Every call of b has an earlier call of a.
Before(a, b) ==
    \A j \in 1 .. Len(calls) : calls[j] = b => \E i \in 1 .. j - 1 : calls[i] = a

Extracted == pc \notin {"start", "queried"}
Scored == pc \notin {"start", "queried", "extracted"}

NoAlertOrRemediation ==
    /\ summary = << >>
    /\ ~Called("summarize_anomalies")
    /\ ~Called("send_slack_alert")
    /\ ~Called("slack_post")
    /\ ~Called("auto_remediate")
    /\ ~Called("github_post")
    /\ ~Called("log_write")
    /\ remediation_log = << >>
    /\ rem.type = "unset"

ValidConfig ==
    /\ WINDOW_SIZE > 0
    /\ WINDOW_STEP > 0
    /\ CONTAMINATION > 0
    /\ CONTAMINATION <= 50

\* C1: for N >= 1 lines and size > 0, step > 0, feature extraction yields
\* exactly max(1, floor((N - size) / step) + 1) rows, whose window starts are
\* exactly the multiples s of step with s < max(1, N - size + 1), in
\* ascending order; for N = 0 it yields zero rows and nothing is raised.
C1_WindowCount ==
    (Extracted /\ WINDOW_SIZE > 0 /\ WINDOW_STEP > 0) =>
        IF nLines = 0
        THEN features = << >> /\ pc # "crashed"
        ELSE /\ Len(features) =
                    Max(1, ((nLines - WINDOW_SIZE) \div WINDOW_STEP) + 1)
             /\ {features[i].start : i \in 1 .. Len(features)} =
                    {s \in 0 .. nLines :
                        /\ s % WINDOW_STEP = 0
                        /\ s < Max(1, nLines - WINDOW_SIZE + 1)}
             /\ \A i \in 1 .. Len(features) : features[i].start = (i - 1) * WINDOW_STEP

\* C1 witness: several windows were built and (N - size) is no multiple of step.
C1_Witness ==
    /\ pc = "extracted"
    /\ WINDOW_SIZE > 0
    /\ WINDOW_STEP > 1
    /\ nLines > WINDOW_SIZE
    /\ (nLines - WINDOW_SIZE) % WINDOW_STEP # 0
    /\ Len(features) >= 2

\* The 120-line batch under window size 50 and step 25, after extraction.
Scenario120 ==
    /\ Extracted
    /\ nLines = 120
    /\ WINDOW_SIZE = DefaultWindowSize
    /\ WINDOW_STEP = DefaultWindowStep

\* C2 as stated: 120 lines, size 50, step 25 give windows starting at 0, 25,
\* 50 and 70, the last one covering lines 70..119, hence 4 feature rows.
C2_FourWindowsTo119 ==
    Scenario120 =>
        /\ Len(features) = 4
        /\ [i \in 1 .. Len(features) |-> features[i].start] = <<0, 25, 50, 70>>
        /\ features[Len(features)].lo = 70
        /\ features[Len(features)].hi = 120

\* C2 amended: 120 lines, size 50, step 25 give exactly 3 feature rows, from
\* the windows starting at 0, 25 and 50; each window holds 50 lines, the
\* last one lines 50..99, and lines 100..119 are in no window.
C2_ThreeFullWindows ==
    Scenario120 =>
        /\ Len(features) = 3
        /\ [i \in 1 .. Len(features) |-> features[i].start] = <<0, 25, 50>>
        /\ \A i \in 1 .. Len(features) :
              /\ features[i].lo = features[i].start
              /\ features[i].hi = features[i].start + 50
              /\ features[i].length = 50
        /\ \A l \in 100 .. 119 :
              ~\E i \in 1 .. Len(features) : features[i].lo <= l /\ l < features[i].hi

C2_Witness == Scenario120 /\ pc = "extracted" /\ features # << >>

\* C3 as stated: a run whose window size or step is not positive, or whose
\* contamination is outside (0, 0.5], performs no log query or other I/O and
\* builds no windows.
C3_InvalidConfigRejected ==
    ~ValidConfig => (calls = << >> /\ features = << >> /\ pc = "start")

\* C4: while the anomaly list is empty no summary is built, send_slack_alert
\* and auto_remediate are never called, no ticket is requested and nothing is
\* written to the remediation log; such a run ends printing "no anomalies".
C4_EmptyMeansNoSideEffects ==
    anomalies = << >> =>
        /\ NoAlertOrRemediation
        /\ pc \notin {"summarized", "alerted"}
        /\ (pc = "done" => status = "no_anomalies")

\* C4 witness: the model was fitted, flagged nothing, and the run ended.
C4_Witness == pc = "done" /\ fitted /\ anomalies = << >> /\ Len(features) >= 3

\* C5: send_slack_alert is called before auto_remediate and only after the
\* summary is built; a failed notification never ends the run, and a run
\* with anomalies that ends has called both, whatever the notification did.
C5_AlertThenRemediate ==
    /\ Before("summarize_anomalies", "send_slack_alert")
    /\ Before("send_slack_alert", "auto_remediate")
    /\ (Called("send_slack_alert") =>
            /\ summary # << >>
            /\ summary = summarize_anomalies(anomalies, features))
    /\ (slackOutcome = "failed" => pc \in {"alerted", "done"})
    /\ (pc = "crashed" => ~Called("send_slack_alert"))
    /\ ((pc = "done" /\ anomalies # << >>) =>
            /\ Called("send_slack_alert")
            /\ Called("auto_remediate")
            /\ slackOutcome \in {"skipped", "sent", "failed"})

\* C5 witness: the notification failed and remediation ran after it.
C5_Witness == pc = "done" /\ slackOutcome = "failed" /\ Called("auto_remediate")

\* C6: with token and repository both configured, auto_remediate requests the
\* ticket first; when that succeeds it returns github_issue with the URL and
\* writes nothing to the remediation log; when it fails in any way it appends
\* one summary line to the log and, if that write succeeds, returns log with
\* the log's path.
C6_TicketThenFallback ==
    (pc = "done" /\ anomalies # << >> /\ GITHUB_TOKEN /\ GITHUB_REPO) =>
        /\ Called("github_post")
        /\ Before("github_post", "log_write")
        /\ ticketOutcome # "none"
        /\ (ticketOutcome = "created" =>
                /\ rem = [type |-> "github_issue", locator |-> "html_url"]
                /\ ~Called("log_write")
                /\ remediation_log = << >>)
        /\ (ticketOutcome # "created" =>
                /\ Called("log_write")
                /\ (writeOutcome = "ok" =>
                        /\ remediation_log = <<summary>>
                        /\ rem = [type |-> "log", locator |-> "/tmp/remediation.log"]))

\* C6 witness: the ticket request failed and the fallback line was written.
C6_Witness ==
    /\ pc = "done"
    /\ GITHUB_TOKEN /\ GITHUB_REPO
    /\ ticketOutcome = "http_error"
    /\ writeOutcome = "ok"
    /\ Len(remediation_log) = 1

\* C7: when the token or the repository is not configured, a run with
\* anomalies makes no ticket request, and with a writable log the value
\* returned by auto_remediate is log.
C7_NoCredentialLogOnly ==
    (anomalies # << >> /\ ~(GITHUB_TOKEN /\ GITHUB_REPO)) =>
        /\ ~Called("github_post")
        /\ ticketOutcome = "none"
        /\ (pc = "done" =>
                /\ Called("log_write")
                /\ (writeOutcome = "ok" =>
                        /\ rem = [type |-> "log", locator |-> "/tmp/remediation.log"]
                        /\ remediation_log = <<summary>>))

\* C7 witness: only the token is configured and the log line was written.
C7_Witness ==
    /\ pc = "done"
    /\ GITHUB_TOKEN /\ ~GITHUB_REPO
    /\ anomalies # << >>
    /\ rem.type = "log"

\* C8: on a feature matrix of fewer than 3 rows detect_anomalies returns the
\* empty list, fits no model and raises nothing, whatever the contamination.
C8_FewRowsNoFit ==
    (Scored /\ Len(features) < 3) =>
        /\ anomalies = << >>
        /\ ~fitted
        /\ pc # "crashed"

\* C8 witness: two rows scored under a contamination the forest would reject.
C8_Witness ==
    /\ pc = "detected"
    /\ Len(features) = 2
    /\ (CONTAMINATION <= 0 \/ CONTAMINATION > 50)

\* C9: when the log source returns no lines or the query fails, the run has
\* zero lines, zero windows and zero anomalies, builds no summary, calls
\* neither notification nor remediation, does not crash and ends printing
\* "no anomalies".
C9_NoLinesNoAnomalies ==
    (pc # "start" /\ (queryOutcome # "ok" \/ nLines = 0)) =>
        /\ nLines = 0
        /\ features = << >>
        /\ anomalies = << >>
        /\ ~fitted
        /\ NoAlertOrRemediation
        /\ pc \in {"queried", "extracted", "detected", "done"}
        /\ (pc = "done" => status = "no_anomalies")

\* C9 witness: the payload was malformed and the run ended with "no anomalies".
C9_Witness ==
    /\ pc = "done"
    /\ queryOutcome = "malformed_payload"
    /\ status = "no_anomalies"

\* C10: with a valid configuration every run ends with a final status, "no
\* anomalies" or the remediation result, whichever of the query, the
\* notification, the ticket request and the fallback write fail; nothing is
\* raised out of main(), and when the fallback write fails auto_remediate
\* returns None.
C10_AlwaysFinalStatus ==
    /\ (ValidConfig ~> pc = "done")
    /\ [](ValidConfig => pc # "crashed")
    /\ [](pc = "done" => status \in {"no_anomalies", "remediation_result"})
    /\ []((pc = "done" /\ status = "remediation_result") => rem.type # "unset")
    /\ [](writeOutcome = "failed" => (pc = "done" /\ rem.type = "None"))

\* C10 witness: the notification, the ticket request and the fallback write
\* all failed, and the run still ended with a remediation result.
C10_Witness ==
    /\ ValidConfig
    /\ pc = "done"
    /\ queryOutcome = "ok"
    /\ slackOutcome = "failed"
    /\ ticketOutcome = "transport_error"
    /\ writeOutcome = "failed"
    /\ status = "remediation_result"
====
